---- MODULE Spec2Model ----
(***************************************************************************)
(* ESP-NOW messaging layer of Esp32BaseCode (src/src/core/ESPNowComm.cpp,  *)
(* ESPNowComm.h) with the callers in src/src/main.cpp.  The manager's      *)
(* fields, the radio driver's peer list and the frames on the wire are the *)
(* state; every public method and every driver callback is one action.     *)
(***************************************************************************)
EXTENDS Integers, Sequences, FiniteSets, TLC

\* ------------------------------------------------------------------ bounds
MaxTicks   == 3      \* clock advances explored
MaxCount   == 2      \* sends / receptions counted before the model stops issuing more
MaxCast    == 3      \* sends counted in the broadcast specification
MaxRace    == 1      \* frames validated, and sends started by the loop, under interleaving

\* ------------------------------------------------------- program constants
MAX_ESPNOW_PEERS == 5
DATA_SIZE        == 230          \* char data[230]
NAME_MAX         == 31           \* strncpy(name, 31)
MSG_SENSOR_DATA  == 0
MSG_ACTUATOR_CMD == 1
MSG_ACK          == 4
PEER_TIMEOUT     == 60000        \* checkPeerActivity(60000)

\* Offsets of the fields of struct ESPNowMessage as the compiler lays it out:
\* the uint32_t timestamp is aligned to 4, so one padding byte follows sender.
OFF_TYPE   == 0
OFF_SENDER == 1
OFF_PAD    == 7
OFF_TS     == 8
OFF_LEN    == 12
OFF_DATA   == 13
OFF_CKSUM  == 243
SIZEOF_MSG == 244

\* ------------------------------------------------------ 32-bit arithmetic
\* uint32_t values are kept as two 16-bit halves (TLC integers are 32-bit
\* signed, so 2^32 itself is not representable).
U32(h, l) == [hi |-> h, lo |-> l]
Z32 == U32(0, 0)
Add32(a, b) ==
    LET l == a.lo + b.lo
    IN  U32((a.hi + b.hi + (l \div 65536)) % 65536, l % 65536)
\* subtraction that clamps at zero instead of wrapping
Sub32NoWrap(a, b) ==
    IF b.hi > a.hi \/ (b.hi = a.hi /\ b.lo > a.lo) THEN [hi |-> 0, lo |-> 0]
    ELSE LET l == a.lo - b.lo
             borrow == IF l < 0 THEN 1 ELSE 0
         IN  [hi |-> a.hi - b.hi - borrow, lo |-> l % 65536]

Sub32(a, b) ==
    LET l == a.lo - b.lo
        borrow == IF l < 0 THEN 1 ELSE 0
    IN  U32((a.hi - b.hi - borrow) % 65536, l % 65536)
Gt32(a, b) == a.hi > b.hi \/ (a.hi = b.hi /\ a.lo > b.lo)
\* n++ on a uint32_t
Inc32(a) == Add32(a, U32(0, 1))
\* events a counter has counted, for the bounds of the exploration: a counter
\* that starts just below 2^32 counts from its wrap
Spent(a) == IF a.hi = 0 THEN a.lo ELSE 0
\* byte k (0 = least significant) of a uint32_t, as stored little-endian
Byte32(a, k) ==
    IF k = 0 THEN a.lo % 256
    ELSE IF k = 1 THEN a.lo \div 256
    ELSE IF k = 2 THEN a.hi % 256
    ELSE a.hi \div 256
FromBytes32(b0, b1, b2, b3) == U32(b2 + 256 * b3, b0 + 256 * b1)

Min(a, b) == IF a < b THEN a ELSE b

\* ------------------------------------------------------------- input sets
MAC_OWN == <<36, 10, 196, 0, 0, 1>>          \* WiFi.macAddress() of this device
MAC_1   == <<170, 187, 204, 221, 238, 255>>  \* AA:BB:CC:DD:EE:FF
MAC_2   == <<170, 187, 204, 221, 238, 1>>
MAC_3   == <<16, 32, 48, 64, 80, 96>>
ZERO_MAC == <<0, 0, 0, 0, 0, 0>>
Macs  == {MAC_1, MAC_2}
Names == {<<78, 50>>}                         \* "N2"

\* {"t":21.5}
P_SHORT == <<123, 34, 116, 34, 58, 50, 49, 46, 53, 125>>
\* {"actuator":"led","value":1}
P_CMD == <<123, 34, 97, 99, 116, 117, 97, 116, 111, 114, 34, 58, 34, 108, 101,
           100, 34, 44, 34, 118, 97, 108, 117, 101, 34, 58, 49, 125>>
\* {"status":"ok","actuator":"led","value":1}
P_ACK == <<123, 34, 115, 116, 97, 116, 117, 115, 34, 58, 34, 111, 107, 34, 44>>
         \o SubSeq(P_CMD, 2, Len(P_CMD))
\* a C string of n non-zero bytes, all positions distinguishable
Fill(n) == [i \in 1..n |-> 1 + (i % 251)]

LOOP_PERIOD == 30000             \* Timer peerCheckTimer(30000)
Deltas == {U32(0, LOOP_PERIOD)}
Garbage == {0, 165}                           \* contents of memory the code never wrote

\* ------------------------------------------------------------------ state
VARIABLES
    peers,          \* PeerInfo peers[MAX_ESPNOW_PEERS]
    peerCount,      \* uint8_t peerCount
    recvCallback,   \* TRUE when a receive handler is registered
    sentCallback,   \* TRUE when a send-completion handler is registered
    totalSent, totalReceived, totalFailed,
    now,            \* millis()
    ticks,          \* clock advances so far (bounded by MaxTicks)
    drvInit,        \* esp_now_init() done and not yet esp_now_deinit()
    drvPeers,       \* peer list of the radio driver
    pending,        \* destinations of accepted sends awaiting onDataSent
    last,           \* last operation: [op, mac, ret, arg]
    tx,             \* esp_now_send calls of the last operation: <<[mac, ok]>>
    frame,          \* fields and length of the last frame the last operation handed to esp_now_send
    cb,             \* handler invocations of the last operation
    rx,             \* what the last onDataRecv was given and what it decoded
    run             \* methods in progress in the two execution contexts

vars == <<peers, peerCount, recvCallback, sentCallback, totalSent, totalReceived,
          totalFailed, now, ticks, drvInit, drvPeers, pending, last, tx, frame, cb, rx, run>>

mgr  == <<peers, peerCount, totalSent, totalReceived, totalFailed>>
hist == <<tx, frame, cb, rx>>

ZeroPeer == [mac |-> ZERO_MAC, name |-> <<>>, active |-> FALSE, lastSeen |-> Z32,
             messagesSent |-> 0, messagesReceived |-> 0]
NoRx == [len |-> 0]
Op(o, m, r) == [op |-> o, mac |-> m, ret |-> r, arg |-> <<>>]
OpArg(o, m, r, a) == [op |-> o, mac |-> m, ret |-> r, arg |-> a]
\* no transmit, handler call or reception to record
Quiet == /\ tx' = <<>>
         /\ frame' = <<>>
         /\ cb' = <<>>
         /\ rx' = NoRx
\* the same for a method that runs in one piece
NoHist == /\ Quiet
          /\ UNCHANGED run

\* a context that runs no method
Idle == [op |-> "none", pc |-> "idle", reg |-> 0, i |-> 0, j |-> -1, mac |-> ZERO_MAC,
         ret |-> "idle", ack |-> FALSE]

\* ESPNowComm::ESPNowComm() on the zero-initialised global instance
Init ==
    /\ peers = [i \in 0..(MAX_ESPNOW_PEERS - 1) |-> ZeroPeer]
    /\ peerCount = 0
    /\ recvCallback = FALSE
    /\ sentCallback = FALSE
    /\ totalSent = Z32
    /\ totalReceived = Z32
    /\ totalFailed = Z32
    /\ now = Z32
    /\ ticks = 0
    /\ drvInit = FALSE
    /\ drvPeers = {}
    /\ pending = <<>>
    /\ last = Op("init", ZERO_MAC, TRUE)
    /\ tx = <<>>
    /\ frame = <<>>
    /\ cb = <<>>
    /\ rx = NoRx
    /\ run = [loop |-> Idle, wifi |-> Idle, calls |-> 0, valid |-> 0, reset |-> FALSE,
              held |-> {}, snap |-> <<>>, touch |-> <<>>, peerCheckTimer |-> Z32]

LoopIdle == run.loop.pc = "idle"
WifiIdle == run.wifi.pc = "idle"

\* ------------------------------------------------------------ peer table
\* index of the first entry below cnt holding mac, or -1
FindPeer(ps, cnt, mac) ==
    LET hits == {i \in 0..(cnt - 1) : ps[i].mac = mac}
    IN  IF hits = {} THEN -1 ELSE CHOOSE i \in hits : \A j \in hits : i <= j

isPeerRegistered(ps, cnt, mac) ==
    \E i \in 0..(cnt - 1) : ps[i].mac = mac /\ ps[i].active

\* updatePeerActivity that stamps slot 0 when the address is not found
updatePeerActivityFirstSlot(ps, cnt, mac, t) ==
    LET i == FindPeer(ps, cnt, mac)
        k == IF i = -1 THEN 0 ELSE i
    IN  [ps EXCEPT ![k].lastSeen = t, ![k].messagesReceived = (@ + 1) % 65536]

updatePeerActivity(ps, cnt, mac, t) ==
    LET i == FindPeer(ps, cnt, mac)
    IN  IF i = -1 THEN ps
        ELSE [ps EXCEPT ![i].lastSeen = t,
                        ![i].messagesReceived = (@ + 1) % 65536]

\* -------------------------------------------------------------- messages
RECURSIVE SumRange(_, _, _)
\* s[lo] + ... + s[hi], split in halves to keep the evaluation shallow
SumRange(s, lo, hi) ==
    IF lo > hi THEN 0
    ELSE IF lo = hi THEN s[lo]
    ELSE LET mid == (lo + hi) \div 2
         IN  SumRange(s, lo, mid) + SumRange(s, mid + 1, hi)
\* sum of the first n elements of the byte sequence s
SumBytes(s, n) == SumRange(s, 1, n)

\* a checksum that sums all four bytes of the timestamp
calculateChecksumWholeStamp(msg) ==
    (msg.type + SumBytes(msg.sender, 6) + Byte32(msg.timestamp, 0)
       + Byte32(msg.timestamp, 1) + Byte32(msg.timestamp, 2) + Byte32(msg.timestamp, 3)
       + msg.dataLen + SumBytes(msg.data, msg.dataLen)) % 256

\* a checksum that leaves the sender address out
calculateChecksumNoSender(msg) ==
    (msg.type + Byte32(msg.timestamp, 0)
       + msg.dataLen + SumBytes(msg.data, msg.dataLen)) % 256

\* uint8_t sum over type, sender[0..5], timestamp & 0xFF, dataLen, data[0..dataLen-1]
calculateChecksum(msg) ==
    (msg.type + SumBytes(msg.sender, 6) + Byte32(msg.timestamp, 0)
       + msg.dataLen + SumBytes(msg.data, msg.dataLen)) % 256

\* validateChecksum that accepts every frame
acceptAnyChecksum(msg) == TRUE

validateChecksum(msg) == calculateChecksum(msg) = msg.checksum

\* ClipLen with the bound off by one: the terminator no longer fits
ClipLenOffByOne(len) == IF len > DATA_SIZE THEN DATA_SIZE ELSE len
\* ClipLen cutting one byte too early
ClipLenStrict(len) == IF len >= DATA_SIZE - 1 THEN DATA_SIZE - 2 ELSE len

\* sendMessage lines 219-224: strlen(data) clipped to sizeof(msg.data) - 1
ClipLen(len) == IF len > DATA_SIZE - 1 THEN DATA_SIZE - 1 ELSE len

\* n bytes of value g
Pad(g, n) == [i \in 1..n |-> g]

\* sendMessage lines 211-230 run by the device whose address is sender at
\* time t: the local ESPNowMessage; bytes the code never writes hold g.
BuildMsg(type, sender, t, data, g) ==
    LET dataLen == ClipLen(Len(data))
        m == [type      |-> type,
              sender    |-> sender,
              pad       |-> g,
              timestamp |-> t,
              dataLen   |-> dataLen,
              data      |-> SubSeq(data, 1, dataLen) \o <<0>>
                              \o Pad(g, DATA_SIZE - dataLen - 1),
              checksum  |-> 0]
    IN  [m EXCEPT !.checksum = calculateChecksum(m)]

\* MsgBytes storing the timestamp most significant byte first
MsgBytesBigEndian(msg) ==
    <<msg.type>> \o msg.sender \o <<msg.pad>>
       \o <<Byte32(msg.timestamp, 3), Byte32(msg.timestamp, 2),
            Byte32(msg.timestamp, 1), Byte32(msg.timestamp, 0)>>
       \o <<msg.dataLen>> \o msg.data \o <<msg.checksum>>

\* the struct laid out without the alignment gap before the timestamp
MsgBytesPacked(msg) ==
    <<msg.type>> \o msg.sender
       \o <<Byte32(msg.timestamp, 0), Byte32(msg.timestamp, 1),
            Byte32(msg.timestamp, 2), Byte32(msg.timestamp, 3)>>
       \o <<msg.dataLen>> \o msg.data \o <<msg.checksum>>

\* (uint8_t *)&msg, sizeof(msg): the struct's bytes as handed to esp_now_send
MsgBytes(msg) ==
    <<msg.type>> \o msg.sender \o <<msg.pad>>
       \o <<Byte32(msg.timestamp, 0), Byte32(msg.timestamp, 1),
            Byte32(msg.timestamp, 2), Byte32(msg.timestamp, 3)>>
       \o <<msg.dataLen>> \o msg.data \o <<msg.checksum>>

\* offsets onDataRecv can reach through the cast: data[254] is the last one
EXTENT == 268

\* (ESPNowMessage *)data in onDataRecv: the fields as read through the cast.
\* Offsets at or past the end of the supplied buffer read whatever memory
\* follows it (g).  data is given 255 entries because calculateChecksum
\* indexes it with a uint8_t dataLen.
MsgAt(buf, g) ==
    LET n == Len(buf)
        mem == IF n >= EXTENT THEN buf ELSE buf \o Pad(g, EXTENT - n)
    IN  [type      |-> mem[OFF_TYPE + 1],
         sender    |-> SubSeq(mem, OFF_SENDER + 1, OFF_SENDER + 6),
         pad       |-> mem[OFF_PAD + 1],
         timestamp |-> FromBytes32(mem[OFF_TS + 1], mem[OFF_TS + 2], mem[OFF_TS + 3], mem[OFF_TS + 4]),
         dataLen   |-> mem[OFF_LEN + 1],
         data      |-> SubSeq(mem, OFF_DATA + 1, EXTENT),
         checksum  |-> mem[OFF_CKSUM + 1]]

\* what a buffer of bytes carries, field by field (history only)
FrameFields(buf) ==
    LET m == MsgAt(buf, 0)
    IN  [len |-> Len(buf), type |-> m.type, sender |-> m.sender, timestamp |-> m.timestamp,
         dataLen |-> m.dataLen, payload |-> SubSeq(m.data, 1, m.dataLen),
         checksum |-> m.checksum,
         head |-> SubSeq(buf, 1, Min(Len(buf), OFF_DATA + 1)), tail |-> buf[Len(buf)]]

\* highest offset onDataRecv reads through the cast, plus one
ReadExtent(msg) ==
    IF OFF_DATA + msg.dataLen > SIZEOF_MSG THEN OFF_DATA + msg.dataLen ELSE SIZEOF_MSG

\* const char *data as the handler reads it: the bytes before the first NUL
CStr(data) ==
    LET nul == {i \in 1..Len(data) : data[i] = 0}
        n == IF nul = {} THEN Len(data)
             ELSE (CHOOSE i \in nul : \A j \in nul : i <= j) - 1
    IN  SubSeq(data, 1, n)

\* ------------------------------------------------------------- sending
\* esp_now_send: ESP_OK only for an initialised driver, a destination in the
\* driver's peer list, and a driver that has room (dest \notin busy)
esp_now_send(dest, busy) == drvInit /\ dest \in drvPeers /\ dest \notin busy

SendState == [peers |-> peers, totalSent |-> totalSent, totalFailed |-> totalFailed,
              pending |-> pending, tx |-> <<>>, frame |-> <<>>, ret |-> TRUE]

\* CountSent that leaves the per-peer counter alone
CountSentNever(ps, dest) == ps

\* sendMessage lines 235-247: count the accepted send on the first entry of dest
CountSent(ps, dest) ==
    LET i == FindPeer(ps, peerCount, dest)
    IN  IF i = -1 THEN ps ELSE [ps EXCEPT ![i].messagesSent = (@ + 1) % 65536]

\* sendMessage that reports success whatever esp_now_send returned
sendMessageOptimistic(S, dest, type, data, busy, g) ==
    LET msg == BuildMsg(type, MAC_OWN, now, data, g)
        result == esp_now_send(dest, busy)
        T == [S EXCEPT !.tx = Append(@, [mac |-> dest, ok |-> result]),
                       !.frame = FrameFields(MsgBytes(msg))]
    IN  IF result
        THEN [T EXCEPT !.totalSent = Inc32(@),
                       !.peers = CountSent(@, dest),
                       !.pending = Append(@, dest),
                       !.ret = TRUE]
        ELSE [T EXCEPT !.totalFailed = Inc32(@),
                       !.ret = TRUE]

sendMessage(S, dest, type, data, busy, g) ==
    LET msg == BuildMsg(type, MAC_OWN, now, data, g)
        result == esp_now_send(dest, busy)
        T == [S EXCEPT !.tx = Append(@, [mac |-> dest, ok |-> result]),
                       !.frame = FrameFields(MsgBytes(msg))]
    IN  IF result
        THEN [T EXCEPT !.totalSent = Inc32(@),
                       !.peers = CountSent(@, dest),
                       !.pending = Append(@, dest),
                       !.ret = TRUE]
        ELSE [T EXCEPT !.totalFailed = Inc32(@),
                       !.ret = FALSE]

RECURSIVE sendLoopAbort(_, _, _, _, _, _)
\* the loop leaving at the first send that fails
sendLoopAbort(S, i, type, data, busy, g) ==
    IF i >= peerCount THEN S
    ELSE IF S.peers[i].active
    THEN LET T == sendMessage(S, S.peers[i].mac, type, data, busy, g)
         IN  IF T.ret THEN sendLoopAbort(T, i + 1, type, data, busy, g) ELSE T
    ELSE sendLoopAbort(S, i + 1, type, data, busy, g)

RECURSIVE sendLoop(_, _, _, _, _, _)
\* the for loop of sendToAllPeers from index i on
sendLoop(S, i, type, data, busy, g) ==
    IF i >= peerCount THEN S
    ELSE IF S.peers[i].active
    THEN LET T == sendMessage(S, S.peers[i].mac, type, data, busy, g)
         IN  sendLoop([T EXCEPT !.ret = S.ret /\ T.ret], i + 1, type, data, busy, g)
    ELSE sendLoop(S, i + 1, type, data, busy, g)

sendToAllPeers(S, type, data, busy, g) == sendLoop(S, 0, type, data, busy, g)

\* number of sends an operation may add: bounds of the exploration
Room(n) ==
    /\ Spent(totalSent) + Spent(totalFailed) + n <= MaxCount
    /\ Len(pending) + n <= MaxCount

SendMessage(dest, type, data, busy, g) ==
    /\ Room(1)
    /\ LET T == sendMessage(SendState, dest, type, data, busy, g)
       IN  /\ peers' = T.peers
           /\ totalSent' = T.totalSent
           /\ totalFailed' = T.totalFailed
           /\ pending' = T.pending
           /\ tx' = T.tx
           /\ frame' = T.frame
           /\ last' = OpArg("sendMessage", dest, T.ret, data)
    /\ cb' = <<>>
    /\ rx' = NoRx
    /\ UNCHANGED <<peerCount, totalReceived, recvCallback, sentCallback, now, ticks,
                   drvInit, drvPeers, run>>

\* ESPNowComm::sendToAllPeers(type, data)
Broadcast(type, data, busy, g) ==
    /\ LET T == sendToAllPeers(SendState, type, data, busy, g)
       IN  /\ peers' = T.peers
           /\ totalSent' = T.totalSent
           /\ totalFailed' = T.totalFailed
           /\ pending' = T.pending
           /\ tx' = T.tx
           /\ frame' = T.frame
           /\ last' = OpArg("sendToAllPeers", ZERO_MAC, T.ret, data)
    /\ cb' = <<>>
    /\ rx' = NoRx
    /\ UNCHANGED <<peerCount, totalReceived, recvCallback, sentCallback, now, ticks,
                   drvInit, drvPeers, run>>

SendToAllPeers(type, data, busy, g) ==
    /\ Room(peerCount)
    /\ Broadcast(type, data, busy, g)

\* the broadcast with room for one send to each of three peers
RoomCast(n) ==
    /\ Spent(totalSent) + Spent(totalFailed) + n <= MaxCast
    /\ Len(pending) + n <= MaxCast

CastToAllPeers(type, data, busy, g) ==
    /\ RoomCast(peerCount)
    /\ Broadcast(type, data, busy, g)

\* ------------------------------------------------------------ callbacks
\* main.cpp onESPNowDataReceived: the JSON in data has the keys "actuator"
\* and "value" (of the payloads the model sends, only P_CMD has)
HasActuatorAndValue(data) == data = P_CMD

\* main.cpp onESPNowDataReceived: an actuator command is acknowledged
onESPNowDataReceived(S, mac, data, type, busy, g) ==
    IF type = MSG_ACTUATOR_CMD /\ HasActuatorAndValue(data)
    THEN sendMessage(S, mac, MSG_ACK, P_ACK, busy, g)
    ELSE S

\* a completion callback that counts the failures it reports
OnDataSentCounting(success) ==
    /\ drvInit
    /\ pending # <<>>
    /\ pending' = Tail(pending)
    /\ totalFailed' = Add32(totalFailed, U32(0, IF success THEN 0 ELSE 1))
    /\ cb' = IF sentCallback
             THEN <<[who |-> "sent", mac |-> Head(pending), success |-> success]>>
             ELSE <<>>
    /\ last' = Op("onDataSent", Head(pending), success)
    /\ tx' = <<>>
    /\ frame' = <<>>
    /\ rx' = NoRx
    /\ UNCHANGED <<peers, peerCount, totalSent, totalReceived, recvCallback, sentCallback,
                   now, ticks, drvInit, drvPeers, run>>

\* a completion callback that sends the frame again when delivery failed
OnDataSentRetrying(success) ==
    /\ drvInit
    /\ pending # <<>>
    /\ LET S0 == [SendState EXCEPT !.pending = Tail(pending)]
           T == IF ~success /\ Spent(totalSent) + Spent(totalFailed) < MaxCount
                THEN sendMessage(S0, Head(pending), MSG_SENSOR_DATA, P_SHORT, {}, 0)
                ELSE S0
       IN  /\ peers' = T.peers
           /\ totalSent' = T.totalSent
           /\ totalFailed' = T.totalFailed
           /\ pending' = T.pending
           /\ tx' = T.tx
           /\ frame' = T.frame
    /\ cb' = IF sentCallback
             THEN <<[who |-> "sent", mac |-> Head(pending), success |-> success]>>
             ELSE <<>>
    /\ last' = Op("onDataSent", Head(pending), success)
    /\ rx' = NoRx
    /\ UNCHANGED <<peerCount, totalReceived, recvCallback, sentCallback,
                   now, ticks, drvInit, drvPeers, run>>

\* ESPNowComm::onDataSent with main.cpp's onESPNowDataSent (which only prints)
OnDataSent(success) ==
    /\ drvInit
    /\ pending # <<>>
    /\ pending' = Tail(pending)
    /\ cb' = IF sentCallback
             THEN <<[who |-> "sent", mac |-> Head(pending), success |-> success]>>
             ELSE <<>>
    /\ last' = Op("onDataSent", Head(pending), success)
    /\ tx' = <<>>
    /\ frame' = <<>>
    /\ rx' = NoRx
    /\ UNCHANGED <<mgr, recvCallback, sentCallback, now, ticks, drvInit, drvPeers, run>>

\* onDataRecv that counts a discarded frame in totalFailed
OnDataRecvCountingCorrupt(mac_addr, data, src, busy, g) ==
    LET msg == MsgAt(data, g)
        seen == [len |-> Len(data), sum |-> calculateChecksum(msg), checksum |-> msg.checksum,
                 oob |-> ReadExtent(msg) > Len(data),
                 type |-> msg.type, sender |-> msg.sender, timestamp |-> msg.timestamp,
                 dataLen |-> msg.dataLen, payload |-> SubSeq(msg.data, 1, msg.dataLen),
                 src |-> src]
    IN  /\ drvInit
        /\ Spent(totalReceived) < MaxCount
        /\ Room(1)
        /\ rx' = seen
        /\ IF ~validateChecksum(msg)
           THEN /\ last' = Op("onDataRecv", mac_addr, FALSE)
                /\ tx' = <<>>
                /\ frame' = <<>>
                /\ cb' = <<>>
                /\ totalFailed' = Inc32(totalFailed)
                /\ UNCHANGED <<peers, peerCount, totalSent, totalReceived, pending>>
           ELSE LET S0 == [SendState EXCEPT
                              !.peers = updatePeerActivity(peers, peerCount, mac_addr, now)]
                    T == IF recvCallback
                         THEN onESPNowDataReceived(S0, mac_addr, CStr(msg.data), msg.type, busy, g)
                         ELSE S0
                IN  /\ totalReceived' = Inc32(totalReceived)
                    /\ peers' = T.peers
                    /\ totalSent' = T.totalSent
                    /\ totalFailed' = T.totalFailed
                    /\ pending' = T.pending
                    /\ tx' = T.tx
                    /\ frame' = T.frame
                    /\ cb' = IF recvCallback
                             THEN <<[who |-> "recv", mac |-> mac_addr,
                                     data |-> CStr(msg.data), type |-> msg.type]>>
                             ELSE <<>>
                    /\ last' = Op("onDataRecv", mac_addr, TRUE)
                    /\ UNCHANGED peerCount
        /\ UNCHANGED <<recvCallback, sentCallback, now, ticks, drvInit, drvPeers, run>>

\* ESPNowComm::onDataRecv(mac_addr, data, data_len) with main.cpp's handler.
\* src describes how the environment produced the buffer (history only).
OnDataRecv(mac_addr, data, src, busy, g) ==
    LET msg == MsgAt(data, g)
        seen == [len |-> Len(data), sum |-> calculateChecksum(msg), checksum |-> msg.checksum,
                 oob |-> ReadExtent(msg) > Len(data),
                 type |-> msg.type, sender |-> msg.sender, timestamp |-> msg.timestamp,
                 dataLen |-> msg.dataLen, payload |-> SubSeq(msg.data, 1, msg.dataLen),
                 src |-> src]
    IN  /\ drvInit
        /\ Spent(totalReceived) < MaxCount
        /\ Room(1)
        /\ rx' = seen
        /\ IF ~validateChecksum(msg)
           THEN /\ last' = Op("onDataRecv", mac_addr, FALSE)
                /\ tx' = <<>>
                /\ frame' = <<>>
                /\ cb' = <<>>
                /\ UNCHANGED <<mgr, pending>>
           ELSE LET S0 == [SendState EXCEPT
                              !.peers = updatePeerActivity(peers, peerCount, mac_addr, now)]
                    T == IF recvCallback
                         THEN onESPNowDataReceived(S0, mac_addr, CStr(msg.data), msg.type, busy, g)
                         ELSE S0
                IN  /\ totalReceived' = Inc32(totalReceived)
                    /\ peers' = T.peers
                    /\ totalSent' = T.totalSent
                    /\ totalFailed' = T.totalFailed
                    /\ pending' = T.pending
                    /\ tx' = T.tx
                    /\ frame' = T.frame
                    /\ cb' = IF recvCallback
                             THEN <<[who |-> "recv", mac |-> mac_addr,
                                     data |-> CStr(msg.data), type |-> msg.type]>>
                             ELSE <<>>
                    /\ last' = Op("onDataRecv", mac_addr, TRUE)
                    /\ UNCHANGED peerCount
        /\ UNCHANGED <<recvCallback, sentCallback, now, ticks, drvInit, drvPeers, run>>

ResetStatistics ==
    /\ totalSent' = Z32
    /\ totalReceived' = Z32
    /\ totalFailed' = Z32
    /\ peers' = [i \in 0..(MAX_ESPNOW_PEERS - 1) |->
                    IF i < peerCount
                    THEN [peers[i] EXCEPT !.messagesSent = 0, !.messagesReceived = 0]
                    ELSE peers[i]]
    /\ last' = Op("resetStatistics", ZERO_MAC, TRUE)
    /\ NoHist
    /\ UNCHANGED <<peerCount, recvCallback, sentCallback, now, ticks, drvInit, drvPeers, pending>>

\* ----------------------------------------------------- inbound traffic
\* a frame as a peer running this firmware builds it
PeerFrame(m, kind, ts, payload, g) == MsgBytes(BuildMsg(kind, m, ts, payload, g))

\* what the link, or a sender that fills the struct differently, may deliver:
\* "noterm" has a non-zero byte at data[dataLen], which the checksum skips
Damage(buf, how) ==
    IF how = "intact" THEN buf
    ELSE IF how = "type" THEN [buf EXCEPT ![OFF_TYPE + 1] = (@ + 1) % 256]
    ELSE IF how = "payload" THEN [buf EXCEPT ![OFF_DATA + 1] = (@ + 16) % 256]
    ELSE IF how = "checksum" THEN [buf EXCEPT ![OFF_CKSUM + 1] = (@ + 128) % 256]
    ELSE IF how = "tshigh" THEN [buf EXCEPT ![OFF_TS + 4] = (@ + 1) % 256]
    ELSE IF how = "noterm" THEN [buf EXCEPT ![OFF_DATA + buf[OFF_LEN + 1] + 1] = 33]
    ELSE IF how = "cut12" THEN SubSeq(buf, 1, 12)
    ELSE SubSeq(buf, 1, SIZEOF_MSG - 1)

\* bit k of the byte at offset off inverted
FlipBit(buf, off, k) ==
    LET b == buf[off + 1]
        w == 2 ^ k
    IN  [buf EXCEPT ![off + 1] = IF (b \div w) % 2 = 1 THEN b - w ELSE b + w]

Source(kind, m, ts, payload, how) ==
    [kind |-> kind, sender |-> m, ts |-> ts, payload |-> payload, how |-> how]

\* buffers from a device that does not run this firmware
FOREIGN_1  == <<0>>
FOREIGN_13 == <<255, 0, 0, 0, 0, 0, 0, 0, 0, 0, 0, 0, 1>>

\* millis() advancing between operations
Tick(d) ==
    /\ ticks < MaxTicks
    /\ now' = Add32(now, d)
    /\ ticks' = ticks + 1
    /\ last' = Op("tick", ZERO_MAC, TRUE)
    /\ NoHist
    /\ UNCHANGED <<mgr, recvCallback, sentCallback, drvInit, drvPeers, pending>>

\* ESPNowComm::begin(); ok is the outcome of esp_now_init()
Begin(ok) ==
    /\ ~drvInit
    /\ drvInit' = ok
    /\ drvPeers' = {}
    /\ last' = Op("begin", ZERO_MAC, ok)
    /\ NoHist
    /\ UNCHANGED <<mgr, recvCallback, sentCallback, now, ticks, pending>>

\* ESPNowComm::end(): esp_now_deinit() drops the driver's peers and callbacks
End ==
    /\ drvInit
    /\ drvInit' = FALSE
    /\ drvPeers' = {}
    /\ pending' = <<>>
    /\ last' = Op("end", ZERO_MAC, TRUE)
    /\ NoHist
    /\ UNCHANGED <<mgr, recvCallback, sentCallback, now, ticks>>

\* setOnDataRecv / setOnDataSent as main.cpp's setup() calls them
SetCallbacks ==
    /\ ~(recvCallback /\ sentCallback)
    /\ recvCallback' = TRUE
    /\ sentCallback' = TRUE
    /\ last' = Op("setCallbacks", ZERO_MAC, TRUE)
    /\ NoHist
    /\ UNCHANGED <<mgr, now, ticks, drvInit, drvPeers, pending>>

\* esp_now_add_peer: fails before init, for a peer the driver already has,
\* and when the driver is out of resources (mem = FALSE)
esp_now_add_peer(mac, mem) == drvInit /\ mac \notin drvPeers /\ mem

\* the table test with the bound off by one
TableFullOffByOne(cnt) == cnt > MAX_ESPNOW_PEERS

\* addPeer lines 85-89: no slot left
TableFull(cnt) == cnt >= MAX_ESPNOW_PEERS

AddPeer(mac, name, mem) ==
    IF TableFull(peerCount)
    THEN /\ last' = Op("addPeer", mac, FALSE)
         /\ NoHist
         /\ UNCHANGED <<mgr, recvCallback, sentCallback, now, ticks, drvInit, drvPeers, pending>>
    ELSE IF isPeerRegistered(peers, peerCount, mac)
    THEN /\ last' = Op("addPeer", mac, TRUE)
         /\ NoHist
         /\ UNCHANGED <<mgr, recvCallback, sentCallback, now, ticks, drvInit, drvPeers, pending>>
    ELSE IF ~esp_now_add_peer(mac, mem)
    THEN /\ last' = Op("addPeer", mac, FALSE)
         /\ NoHist
         /\ UNCHANGED <<mgr, recvCallback, sentCallback, now, ticks, drvInit, drvPeers, pending>>
    ELSE /\ drvPeers' = drvPeers \cup {mac}
         /\ peers' = [peers EXCEPT ![peerCount] =
                        [mac |-> mac,
                         name |-> SubSeq(name, 1, Min(Len(name), NAME_MAX)),
                         active |-> TRUE,
                         lastSeen |-> now,
                         messagesSent |-> 0,
                         messagesReceived |-> 0]]
         /\ peerCount' = peerCount + 1
         /\ last' = Op("addPeer", mac, TRUE)
         /\ NoHist
         /\ UNCHANGED <<totalSent, totalReceived, totalFailed, recvCallback, sentCallback,
                        now, ticks, drvInit, pending>>

RemovePeer(mac) ==
    LET index == FindPeer(peers, peerCount, mac)
    IN  IF index = -1
        THEN /\ last' = Op("removePeer", mac, FALSE)
             /\ NoHist
             /\ UNCHANGED <<mgr, recvCallback, sentCallback, now, ticks, drvInit, drvPeers, pending>>
        ELSE /\ drvPeers' = drvPeers \ {mac}
             /\ peers' = [i \in 0..(MAX_ESPNOW_PEERS - 1) |->
                            IF i >= index /\ i < peerCount - 1 THEN peers[i + 1] ELSE peers[i]]
             /\ peerCount' = peerCount - 1
             /\ last' = Op("removePeer", mac, TRUE)
             /\ NoHist
             /\ UNCHANGED <<totalSent, totalReceived, totalFailed, recvCallback, sentCallback,
                            now, ticks, drvInit, pending>>

\* the loop body of checkPeerActivity at time t
checkPeerActivity(ps, cnt, t, timeout) ==
    [i \in 0..(MAX_ESPNOW_PEERS - 1) |->
        IF i < cnt /\ Gt32(Sub32(t, ps[i].lastSeen), timeout)
        THEN [ps[i] EXCEPT !.active = FALSE]
        ELSE ps[i]]

\* a timer that is never ready
TimerNeverReady(t, lastTime, interval) == FALSE

\* Timer::isReady: currentTime - lastTime >= interval
TimerReady(t, lastTime, interval) == ~Gt32(interval, Sub32(t, lastTime))

\* one pass of loop(): section 7 (peerCheckTimer) and section 9, the health
\* check of every 1000th pass (health), which sweeps as well
LoopPass(health) ==
    LET ready == TimerReady(now, run.peerCheckTimer, U32(0, LOOP_PERIOD))
    IN  /\ LoopIdle
        /\ drvInit
        /\ run' = [run EXCEPT !.peerCheckTimer = IF ready THEN now ELSE @]
        /\ peers' = IF ready \/ health
                    THEN checkPeerActivity(peers, peerCount, now, U32(0, PEER_TIMEOUT))
                    ELSE peers
        /\ last' = Op("loop", ZERO_MAC, ready \/ health)
        /\ Quiet
        /\ UNCHANGED <<peerCount, totalSent, totalReceived, totalFailed, recvCallback,
                       sentCallback, now, ticks, drvInit, drvPeers, pending>>

\* a sweep that evicts hard: an expired entry is wiped
CheckPeerActivityWiping(timeout) ==
    /\ peers' = [i \in 0..(MAX_ESPNOW_PEERS - 1) |->
                    IF i < peerCount /\ Gt32(Sub32(now, peers[i].lastSeen), timeout)
                    THEN ZeroPeer
                    ELSE peers[i]]
    /\ last' = Op("checkPeerActivity", ZERO_MAC, TRUE)
    /\ NoHist
    /\ UNCHANGED <<peerCount, totalSent, totalReceived, totalFailed, recvCallback, sentCallback,
                   now, ticks, drvInit, drvPeers, pending>>

CheckPeerActivity(timeout) ==
    /\ peers' = [i \in 0..(MAX_ESPNOW_PEERS - 1) |->
                    IF i < peerCount /\ Gt32(Sub32(now, peers[i].lastSeen), timeout)
                    THEN [peers[i] EXCEPT !.active = FALSE]
                    ELSE peers[i]]
    /\ last' = Op("checkPeerActivity", ZERO_MAC, TRUE)
    /\ NoHist
    /\ UNCHANGED <<peerCount, totalSent, totalReceived, totalFailed, recvCallback, sentCallback,
                   now, ticks, drvInit, drvPeers, pending>>

\* ------------------------------------------- two execution contexts
\* The main loop ("loop") and the radio driver's task ("wifi") run the
\* manager's methods on the same object, which has no lock.  A method in
\* progress is a position (pc) with its locals; one step of a context is
\* one load or store of a member.  calls, valid, reset, held, snap and touch
\* are history: transmit calls made, frames validated, a reset was started,
\* the counter triples memory held during the last getStatistics and the
\* triple it returned, and the entry updatePeerActivity last wrote.
World == [peers |-> peers, peerCount |-> peerCount, totalSent |-> totalSent,
          totalReceived |-> totalReceived, totalFailed |-> totalFailed,
          pending |-> pending, calls |-> run.calls, valid |-> run.valid,
          snap |-> run.snap, touch |-> run.touch]

\* return of sendMessage: to the i++ of the broadcast loop, or to the caller
Return(x) ==
    IF x.ret = "castTest" THEN [x EXCEPT !.pc = "castTest", !.i = @ + 1, !.j = -1, !.reg = 0]
    ELSE Idle

\* sendMessage lines 233-259
stepSend(x, W, busy) ==
    CASE x.pc = "send" ->
            LET ok == esp_now_send(x.mac, busy)
            IN  [x |-> [x EXCEPT !.pc = IF ok THEN "ldSent" ELSE "ldFailed"],
                 W |-> [W EXCEPT !.calls = @ + 1,
                                 !.pending = IF ok THEN Append(@, x.mac) ELSE @]]
      [] x.pc = "ldSent" ->
            [x |-> [x EXCEPT !.reg = W.totalSent, !.pc = "stSent"], W |-> W]
      [] x.pc = "stSent" ->
            [x |-> [x EXCEPT !.reg = 0, !.pc = "findSent"],
             W |-> [W EXCEPT !.totalSent = Inc32(x.reg)]]
      [] x.pc = "findSent" ->
            LET j == FindPeer(W.peers, W.peerCount, x.mac)
            IN  [x |-> IF j = -1 THEN Return(x) ELSE [x EXCEPT !.j = j, !.pc = "ldMsgSent"],
                 W |-> W]
      [] x.pc = "ldMsgSent" ->
            [x |-> [x EXCEPT !.reg = W.peers[x.j].messagesSent, !.pc = "stMsgSent"], W |-> W]
      [] x.pc = "stMsgSent" ->
            [x |-> Return(x),
             W |-> [W EXCEPT !.peers[x.j].messagesSent = (x.reg + 1) % 65536]]
      [] x.pc = "ldFailed" ->
            [x |-> [x EXCEPT !.reg = W.totalFailed, !.pc = "stFailed"], W |-> W]
      [] x.pc = "stFailed" ->
            [x |-> Return(x), W |-> [W EXCEPT !.totalFailed = Inc32(x.reg)]]

\* sendToAllPeers lines 268-277: the loop test and the call
stepCast(x, W) ==
    IF x.i >= W.peerCount THEN [x |-> Idle, W |-> W]
    ELSE IF W.peers[x.i].active
    THEN [x |-> [x EXCEPT !.mac = W.peers[x.i].mac, !.pc = "send", !.ret = "castTest"], W |-> W]
    ELSE [x |-> [x EXCEPT !.i = @ + 1], W |-> W]

\* onDataRecv lines 380-393 with updatePeerActivity (189-200) inlined
stepRecv(x, W) ==
    CASE x.pc = "ldRecv" ->
            [x |-> [x EXCEPT !.reg = W.totalReceived, !.pc = "stRecv"], W |-> W]
      [] x.pc = "stRecv" ->
            [x |-> [x EXCEPT !.reg = 0, !.pc = "findSeen"],
             W |-> [W EXCEPT !.totalReceived = Inc32(x.reg)]]
      [] x.pc = "findSeen" ->
            LET j == FindPeer(W.peers, W.peerCount, x.mac)
            IN  [x |-> IF j = -1 THEN [x EXCEPT !.pc = "handler"]
                       ELSE [x EXCEPT !.j = j, !.pc = "stSeen"],
                 W |-> W]
      [] x.pc = "stSeen" ->
            [x |-> [x EXCEPT !.pc = "ldMsgRecv"],
             W |-> [W EXCEPT !.peers[x.j].lastSeen = now,
                             !.touch = [mac |-> x.mac, entry |-> W.peers[x.j].mac,
                                        idx |-> x.j, cnt |-> W.peerCount]]]
      [] x.pc = "ldMsgRecv" ->
            [x |-> [x EXCEPT !.reg = W.peers[x.j].messagesReceived, !.pc = "stMsgRecv"],
             W |-> W]
      [] x.pc = "stMsgRecv" ->
            [x |-> [x EXCEPT !.reg = 0, !.j = -1, !.pc = "handler"],
             W |-> [W EXCEPT !.peers[x.j].messagesReceived = (x.reg + 1) % 65536,
                             !.touch = [mac |-> x.mac, entry |-> W.peers[x.j].mac,
                                        idx |-> x.j, cnt |-> W.peerCount]]]
      [] x.pc = "handler" ->
            [x |-> IF x.ack THEN [x EXCEPT !.pc = "send", !.ret = "idle"] ELSE Idle, W |-> W]

\* removePeer lines 151-155: the shift, one entry per step, then peerCount--
stepRemove(x, W) ==
    IF x.pc = "shift"
    THEN IF x.i < W.peerCount - 1
         THEN [x |-> [x EXCEPT !.i = @ + 1],
               W |-> [W EXCEPT !.peers[x.i] = W.peers[x.i + 1]]]
         ELSE [x |-> [x EXCEPT !.pc = "dec"], W |-> W]
    ELSE [x |-> Idle, W |-> [W EXCEPT !.peerCount = @ - 1]]

\* checkPeerActivity lines 467-474: one entry per step; reg holds now (line 466)
stepSweep(x, W) ==
    IF x.i >= W.peerCount THEN [x |-> Idle, W |-> W]
    ELSE [x |-> [x EXCEPT !.i = @ + 1],
          W |-> IF Gt32(Sub32(x.reg, W.peers[x.i].lastSeen), U32(0, PEER_TIMEOUT))
                THEN [W EXCEPT !.peers[x.i].active = FALSE]
                ELSE W]

\* resetStatistics lines 449-457
stepReset(x, W) ==
    CASE x.pc = "rstSent" ->
            [x |-> [x EXCEPT !.pc = "rstRecv"], W |-> [W EXCEPT !.totalSent = Z32]]
      [] x.pc = "rstRecv" ->
            [x |-> [x EXCEPT !.pc = "rstFailed"], W |-> [W EXCEPT !.totalReceived = Z32]]
      [] x.pc = "rstFailed" ->
            [x |-> [x EXCEPT !.pc = "rstPeer"], W |-> [W EXCEPT !.totalFailed = Z32]]
      [] x.pc = "rstPeer" ->
            IF x.i >= W.peerCount THEN [x |-> Idle, W |-> W]
            ELSE [x |-> [x EXCEPT !.i = @ + 1],
                  W |-> [W EXCEPT !.peers[x.i].messagesSent = 0,
                                  !.peers[x.i].messagesReceived = 0]]

\* getStatistics lines 439-441: reg collects the three values read
stepStats(x, W) ==
    CASE x.pc = "gsSent" ->
            [x |-> [x EXCEPT !.reg = <<W.totalSent>>, !.pc = "gsRecv"], W |-> W]
      [] x.pc = "gsRecv" ->
            [x |-> [x EXCEPT !.reg = Append(@, W.totalReceived), !.pc = "gsFailed"], W |-> W]
      [] x.pc = "gsFailed" ->
            [x |-> Idle, W |-> [W EXCEPT !.snap = Append(x.reg, W.totalFailed)]]

StepOf(x, W, busy) ==
    IF x.pc = "castTest" THEN stepCast(x, W)
    ELSE IF x.pc \in {"ldRecv", "stRecv", "findSeen", "stSeen", "ldMsgRecv", "stMsgRecv", "handler"}
    THEN stepRecv(x, W)
    ELSE IF x.pc \in {"shift", "dec"} THEN stepRemove(x, W)
    ELSE IF x.pc = "sweep" THEN stepSweep(x, W)
    ELSE IF x.pc \in {"rstSent", "rstRecv", "rstFailed", "rstPeer"} THEN stepReset(x, W)
    ELSE IF x.pc \in {"gsSent", "gsRecv", "gsFailed"} THEN stepStats(x, W)
    ELSE stepSend(x, W, busy)

\* context c runs the next load or store of its method
Micro(c, busy) ==
    /\ run[c].pc # "idle"
    /\ LET r == StepOf(run[c], World, busy)
       IN  /\ peers' = r.W.peers
           /\ peerCount' = r.W.peerCount
           /\ totalSent' = r.W.totalSent
           /\ totalReceived' = r.W.totalReceived
           /\ totalFailed' = r.W.totalFailed
           /\ pending' = r.W.pending
           /\ run' = [run EXCEPT ![c] = r.x,
                                 !.calls = r.W.calls,
                                 !.valid = r.W.valid,
                                 !.snap = r.W.snap,
                                 !.touch = r.W.touch,
                                 !.held = IF run.loop.op = "getStatistics"
                                          THEN @ \cup {<<r.W.totalSent, r.W.totalReceived,
                                                         r.W.totalFailed>>}
                                          ELSE @]
    /\ last' = Op(run[c].op, run[c].mac, TRUE)
    /\ Quiet
    /\ UNCHANGED <<recvCallback, sentCallback, now, ticks, drvInit, drvPeers>>

\* the main loop calls a method: its first step is taken by Micro
Enter(x) ==
    /\ LoopIdle
    /\ run' = [run EXCEPT !.loop = x,
                          !.reset = @ \/ x.op = "resetStatistics",
                          !.held = IF x.op = "getStatistics"
                                   THEN {<<totalSent, totalReceived, totalFailed>>}
                                   ELSE @,
                          !.snap = IF x.op = "getStatistics" THEN <<>> ELSE @]
    /\ last' = Op("call", x.mac, TRUE)
    /\ Quiet
    /\ UNCHANGED <<mgr, recvCallback, sentCallback, now, ticks, drvInit, drvPeers, pending>>

LoopSendMessage(dest) ==
    /\ run.calls < MaxRace
    /\ Enter([Idle EXCEPT !.op = "sendMessage", !.pc = "send", !.mac = dest])

LoopSendToAllPeers ==
    /\ run.calls + peerCount <= MaxRace
    /\ Enter([Idle EXCEPT !.op = "sendToAllPeers", !.pc = "castTest", !.ret = "castTest"])

LoopCheckPeerActivity ==
    Enter([Idle EXCEPT !.op = "checkPeerActivity", !.pc = "sweep", !.reg = now])

LoopResetStatistics == Enter([Idle EXCEPT !.op = "resetStatistics", !.pc = "rstSent"])

LoopGetStatistics == Enter([Idle EXCEPT !.op = "getStatistics", !.pc = "gsSent"])

\* removePeer lines 134-148: the search and esp_now_del_peer
LoopRemovePeer(mac) ==
    /\ LoopIdle
    /\ LET index == FindPeer(peers, peerCount, mac)
       IN  IF index = -1
           THEN UNCHANGED <<run, drvPeers>>
           ELSE /\ drvPeers' = drvPeers \ {mac}
                /\ run' = [run EXCEPT !.loop = [Idle EXCEPT !.op = "removePeer", !.pc = "shift",
                                                            !.mac = mac, !.i = index]]
    /\ last' = Op("call", mac, TRUE)
    /\ Quiet
    /\ UNCHANGED <<mgr, recvCallback, sentCallback, now, ticks, drvInit, pending>>

\* onDataRecv lines 366-377 in the driver's task: the cast and the checksum
WifiDataRecv(mac_addr, data, g) ==
    /\ WifiIdle
    /\ drvInit
    /\ run.valid < MaxRace
    /\ LET msg == MsgAt(data, g)
       IN  IF ~validateChecksum(msg)
           THEN UNCHANGED run
           ELSE run' = [run EXCEPT
                          !.wifi = [Idle EXCEPT
                                      !.op = "onDataRecv", !.pc = "ldRecv", !.mac = mac_addr,
                                      !.ack = /\ recvCallback
                                              /\ msg.type = MSG_ACTUATOR_CMD
                                              /\ HasActuatorAndValue(CStr(msg.data))],
                          !.valid = @ + 1]
    /\ last' = Op("frame", mac_addr, TRUE)
    /\ Quiet
    /\ UNCHANGED <<mgr, recvCallback, sentCallback, now, ticks, drvInit, drvPeers, pending>>

\* ------------------------------------------------- inputs of the actions
Kinds   == {MSG_SENSOR_DATA, MSG_ACTUATOR_CMD}
PEER_TS == U32(1, 258)

RxInput(m, k, ts, p, g, how) ==
    [mac |-> m, buf |-> Damage(PeerFrame(m, k, ts, p, g), how), src |-> Source(k, m, ts, p, how)]
RxForeign(m, buf) ==
    [mac |-> m, buf |-> buf, src |-> Source(0, m, Z32, <<>>, "foreign")]

\* inbound traffic of the messaging specification
RxMsg ==
    {RxInput(m, MSG_SENSOR_DATA, PEER_TS, P_SHORT, 165, "intact") : m \in Macs}
    \cup {RxInput(MAC_1, MSG_ACTUATOR_CMD, PEER_TS, P_CMD, 165, "intact"),
          RxInput(MAC_2, MSG_SENSOR_DATA, PEER_TS, P_SHORT, 165, "payload"),
          RxInput(MAC_2, MSG_SENSOR_DATA, PEER_TS, P_SHORT, 0, "noterm")}

\* ---------------------------------------- receiving and liveness (Spec)
Next ==
    \/ \E d \in Deltas : Tick(d)
    \/ \E ok \in BOOLEAN : Begin(ok)
    \/ SetCallbacks
    \/ \E m \in Macs, n \in Names, mem \in BOOLEAN : AddPeer(m, n, mem)
    \/ CheckPeerActivity(U32(0, PEER_TIMEOUT))
    \/ \E ok \in BOOLEAN : OnDataSent(ok)
    \/ \E in \in RxMsg, busy \in {{}, Macs} : OnDataRecv(in.mac, in.buf, in.src, busy, 0)

Spec == Init /\ [][Next]_vars

\* ------------------------------------------------- sending (SpecSend)
NextSend ==
    \/ \E ok \in BOOLEAN : Begin(ok)
    \/ SetCallbacks
    \/ \E m \in Macs, n \in Names, mem \in BOOLEAN : AddPeer(m, n, mem)
    \/ \E m \in Macs, busy \in {{}, Macs} :
          SendMessage(m, MSG_SENSOR_DATA, P_SHORT, busy, 165)
    \/ \E busy \in SUBSET Macs : SendToAllPeers(MSG_SENSOR_DATA, P_SHORT, busy, 165)
    \/ \E ok \in BOOLEAN : OnDataSent(ok)
    \/ ResetStatistics

SpecSend == Init /\ [][NextSend]_vars

\* ------------------------------------------------ peer registry (SpecReg)
RxReg == {RxInput(m, MSG_SENSOR_DATA, PEER_TS, P_SHORT, 165, "intact") : m \in Macs}

NextReg ==
    \/ \E d \in Deltas : Tick(d)
    \/ \E ok \in BOOLEAN : Begin(ok)
    \/ End
    \/ \E m \in Macs, n \in Names, mem \in BOOLEAN : AddPeer(m, n, mem)
    \/ \E m \in Macs : RemovePeer(m)
    \/ CheckPeerActivity(U32(0, PEER_TIMEOUT))
    \/ \E in \in RxReg : OnDataRecv(in.mac, in.buf, in.src, {}, 0)

SpecReg == Init /\ [][NextReg]_vars

\* ------------------------------------------------ wire format (SpecCodec)
BoundaryPayloads == {<<>>, P_SHORT, Fill(DATA_SIZE - 1), Fill(DATA_SIZE), Fill(DATA_SIZE + 1)}
CodecKinds == {MSG_SENSOR_DATA, 99}
CodecTs == {PEER_TS, U32(43981, 61185)}

\* frames of the full struct size: one field varied at a time
RxCodecFull ==
    {RxInput(MAC_1, k, PEER_TS, P_SHORT, 165, "intact") : k \in CodecKinds}
    \cup {RxInput(MAC_1, MSG_SENSOR_DATA, ts, P_SHORT, 0, "intact") : ts \in CodecTs}
    \cup {RxInput(MAC_2, MSG_SENSOR_DATA, PEER_TS, p, 165, "intact") : p \in BoundaryPayloads}
    \cup {RxInput(MAC_1, MSG_SENSOR_DATA, PEER_TS, P_SHORT, 165, how) :
            how \in {"type", "payload", "checksum", "tshigh"}}
\* buffers shorter than the struct
RxCodecShort ==
    {RxInput(MAC_1, MSG_SENSOR_DATA, PEER_TS, P_SHORT, 165, how) : how \in {"cut12", "cut243"}}
    \cup {RxForeign(MAC_2, FOREIGN_1), RxForeign(MAC_2, FOREIGN_13)}

NextCodec ==
    \/ Begin(TRUE)
    \/ SetCallbacks
    \/ AddPeer(MAC_1, <<78, 50>>, TRUE)
    \/ \E k \in CodecKinds : SendMessage(MAC_1, k, P_SHORT, {}, 0)
    \/ \E p \in BoundaryPayloads : SendMessage(MAC_1, MSG_SENSOR_DATA, p, {}, 165)
    \/ \E in \in RxCodecFull : OnDataRecv(in.mac, in.buf, in.src, {}, 0)
    \/ \E in \in RxCodecShort, g \in Garbage : OnDataRecv(in.mac, in.buf, in.src, {}, g)

SpecCodec == Init /\ [][NextCodec]_vars

\* ------------------------------------------------- full table (SpecFull)
\* one address more than the table has slots
FleetMacs == {<<170, 187, 204, 221, 238, i>> : i \in 1..(MAX_ESPNOW_PEERS + 1)}

NextFull ==
    \/ Begin(TRUE)
    \/ \E m \in FleetMacs, n \in Names, mem \in BOOLEAN : AddPeer(m, n, mem)
    \/ \E m \in FleetMacs : RemovePeer(m)

SpecFull == Init /\ [][NextFull]_vars

\* ---------------------------------------- sweep threshold (SpecSweep)
\* millis() 30 s before it wraps to zero
NEAR_WRAP == U32(65535, 35536)
\* clock steps that put an entry exactly at, and one past, the timeout
SweepDeltas == {U32(0, 1), U32(0, PEER_TIMEOUT), NEAR_WRAP}

NextSweep ==
    \/ \E d \in SweepDeltas : Tick(d)
    \/ Begin(TRUE)
    \/ \E m \in Macs, n \in Names : AddPeer(m, n, TRUE)
    \/ CheckPeerActivity(U32(0, PEER_TIMEOUT))
    \/ \E in \in RxReg : OnDataRecv(in.mac, in.buf, in.src, {}, 0)

SpecSweep == Init /\ [][NextSweep]_vars

\* --------------------------------------------- broadcast (SpecCast)
CastMacs == {MAC_1, MAC_2, MAC_3}
\* the driver rejects no send, or the sends to one of the peers
CastBusy == {{}} \cup {{m} : m \in CastMacs}

NextCast ==
    \/ \E d \in Deltas : Tick(d)
    \/ Begin(TRUE)
    \/ \E m \in CastMacs, n \in Names : AddPeer(m, n, TRUE)
    \/ CheckPeerActivity(U32(0, PEER_TIMEOUT))
    \/ \E busy \in CastBusy : CastToAllPeers(MSG_SENSOR_DATA, P_SHORT, busy, 165)

SpecCast == Init /\ [][NextCast]_vars

\* ------------------------- broadcast and its completions (SpecPartial)
NextPartial ==
    \/ Begin(TRUE)
    \/ SetCallbacks
    \/ \E m \in CastMacs, n \in Names : AddPeer(m, n, TRUE)
    \/ \E busy \in CastBusy : CastToAllPeers(MSG_SENSOR_DATA, P_SHORT, busy, 165)
    \/ \E ok \in BOOLEAN : OnDataSent(ok)

SpecPartial == Init /\ [][NextPartial]_vars

\* ------------------------------------------- single bit errors (SpecFlip)
\* {"a":"xy-0"}: its last four bytes sum to 252
P_LEN12 == <<123, 34, 97, 34, 58, 34, 120, 121, 45, 48, 34, 125>>
FlipBits == {0, 3, 7}
\* offsets of the bytes a frame carrying payload p consists of, checksum aside
FlipOffsets(p) ==
    {OFF_TYPE, OFF_SENDER, OFF_SENDER + 5, OFF_TS, OFF_TS + 1, OFF_TS + 2, OFF_TS + 3,
     OFF_LEN, OFF_DATA, OFF_DATA + Len(p) - 1}

RxFlipped(m, k, ts, p, g, off, bit) ==
    [mac |-> m,
     buf |-> FlipBit(PeerFrame(m, k, ts, p, g), off, bit),
     src |-> [kind |-> k, sender |-> m, ts |-> ts, payload |-> p, how |-> "flip",
              off |-> off, bit |-> bit]]

RxFlip ==
    {RxFlipped(MAC_1, MSG_SENSOR_DATA, PEER_TS, P_SHORT, 165, off, bit) :
        off \in FlipOffsets(P_SHORT), bit \in FlipBits}
    \cup {RxFlipped(MAC_1, MSG_SENSOR_DATA, PEER_TS, P_LEN12, 165, OFF_LEN, 2),
          RxInput(MAC_1, MSG_SENSOR_DATA, PEER_TS, P_SHORT, 165, "intact")}

NextFlip ==
    \/ Begin(TRUE)
    \/ SetCallbacks
    \/ AddPeer(MAC_1, <<78, 50>>, TRUE)
    \/ \E in \in RxFlip : OnDataRecv(in.mac, in.buf, in.src, {}, 0)

SpecFlip == Init /\ [][NextFlip]_vars

\* ------------------------------------------- frames on the wire (SpecWire)
\* clock steps whose four bytes differ from each other
WireDeltas == {U32(258, 772), U32(43981, 61185)}
WirePayloads == {<<>>, P_SHORT, Fill(DATA_SIZE - 1), Fill(DATA_SIZE + 1)}

NextWire ==
    \/ \E d \in WireDeltas : Tick(d)
    \/ Begin(TRUE)
    \/ AddPeer(MAC_1, <<78, 50>>, TRUE)
    \/ \E p \in WirePayloads : SendMessage(MAC_1, MSG_SENSOR_DATA, p, {}, 165)
    \/ SendMessage(MAC_1, 99, P_SHORT, {}, 0)
    \/ SendToAllPeers(MSG_ACTUATOR_CMD, P_CMD, {}, 165)

SpecWire == Init /\ [][NextWire]_vars

\* ------------------------- counters under interleaving (SpecRace)
Contexts == {"loop", "wifi"}
RxRace ==
    {RxInput(MAC_1, MSG_ACTUATOR_CMD, PEER_TS, P_CMD, 165, "intact"),
     RxInput(MAC_1, MSG_ACTUATOR_CMD, PEER_TS, P_CMD, 165, "payload")}

NextRace ==
    \/ Begin(TRUE)
    \/ SetCallbacks
    \/ LoopIdle /\ AddPeer(MAC_1, <<78, 50>>, TRUE)
    \/ LoopSendMessage(MAC_1)
    \/ LoopSendToAllPeers
    \/ LoopResetStatistics
    \/ \E in \in RxRace : WifiDataRecv(in.mac, in.buf, 0)
    \/ \E ok \in BOOLEAN : WifiIdle /\ OnDataSent(ok)
    \/ \E c \in Contexts, busy \in {{}, Macs} : Micro(c, busy)

SpecRace == Init /\ [][NextRace]_vars

\* ------------------------- statistics under interleaving (SpecSnap)
NextSnap ==
    \/ Begin(TRUE)
    \/ SetCallbacks
    \/ LoopIdle /\ AddPeer(MAC_1, <<78, 50>>, TRUE)
    \/ LoopGetStatistics
    \/ \E in \in RxRace : WifiDataRecv(in.mac, in.buf, 0)
    \/ \E c \in Contexts : Micro(c, {})

SpecSnap == Init /\ [][NextSnap]_vars

\* ------------------------ the table under interleaving (SpecShift)
\* 100 s without traffic
SILENCE == U32(1, 34464)

NextShift ==
    \/ ticks = 0 /\ Tick(SILENCE)
    \/ Begin(TRUE)
    \/ \E m \in Macs : LoopIdle /\ AddPeer(m, <<78, 50>>, TRUE)
    \/ \E m \in Macs : LoopRemovePeer(m)
    \/ LoopCheckPeerActivity
    \/ LoopSendToAllPeers
    \/ \E in \in RxReg : WifiDataRecv(in.mac, in.buf, 0)
    \/ \E c \in Contexts : Micro(c, {})

SpecShift == Init /\ [][NextShift]_vars

\* ------------------------------------- the loop's sweeps (SpecLive)
LiveMacs == {MAC_1, MAC_2}
RxLive == {RxInput(MAC_1, MSG_SENSOR_DATA, PEER_TS, P_SHORT, 165, "intact")}

NextLive ==
    \/ \E d \in Deltas : Tick(d)
    \/ Begin(TRUE)
    \/ \E m \in LiveMacs, n \in Names : AddPeer(m, n, TRUE)
    \/ \E h \in BOOLEAN : LoopPass(h)
    \/ \E in \in RxLive : OnDataRecv(in.mac, in.buf, in.src, {}, 0)
    \/ SendToAllPeers(MSG_SENSOR_DATA, P_SHORT, {}, 165)

\* loop() is called again and again
SpecLive == Init /\ [][NextLive]_vars /\ WF_vars(\E h \in BOOLEAN : LoopPass(h))

\* ------------------------------------- width of the counters (SpecWidth)
\* 2^32 - 1, the largest value of a uint32_t counter
MAX32 == U32(65535, 65535)
LONG_UPTIME == U32(7, 0)

\* the table after begin(), addPeer(MAC_1), addPeer(MAC_2), one accepted send
\* to and one validated frame from MAC_1, and 2^32 - 2 of each to and from
\* MAC_2: messagesSent and messagesReceived of MAC_2 are (2^32 - 2) % 2^16
WornPeers ==
    [i \in 0..(MAX_ESPNOW_PEERS - 1) |->
        IF i = 0
        THEN [mac |-> MAC_1, name |-> <<78, 50>>, active |-> TRUE, lastSeen |-> LONG_UPTIME,
              messagesSent |-> 1, messagesReceived |-> 1]
        ELSE IF i = 1
        THEN [mac |-> MAC_2, name |-> <<78, 50>>, active |-> TRUE, lastSeen |-> LONG_UPTIME,
              messagesSent |-> 65534, messagesReceived |-> 65534]
        ELSE ZeroPeer]

InitWidth ==
    /\ peers = WornPeers
    /\ peerCount = 2
    /\ recvCallback = FALSE
    /\ sentCallback = FALSE
    /\ totalSent = MAX32
    /\ totalReceived = MAX32
    /\ totalFailed = Z32
    /\ now = LONG_UPTIME
    /\ ticks = 0
    /\ drvInit = TRUE
    /\ drvPeers = {MAC_1, MAC_2}
    /\ pending = <<>>
    /\ last = Op("init", ZERO_MAC, TRUE)
    /\ tx = <<>>
    /\ frame = <<>>
    /\ cb = <<>>
    /\ rx = NoRx
    /\ run = [loop |-> Idle, wifi |-> Idle, calls |-> 0, valid |-> 0, reset |-> FALSE,
              held |-> {}, snap |-> <<>>, touch |-> <<>>, peerCheckTimer |-> Z32]

NextWidth ==
    \/ ticks = 0 /\ Tick(SILENCE)
    \/ \E n \in Names : AddPeer(MAC_1, n, TRUE)
    \/ RemovePeer(MAC_1)
    \/ \E m \in Macs : SendMessage(m, MSG_SENSOR_DATA, P_SHORT, {}, 165)
    \/ SendToAllPeers(MSG_SENSOR_DATA, P_SHORT, {}, 165)
    \/ \E in \in RxLive : OnDataRecv(in.mac, in.buf, in.src, {}, 0)
    \/ CheckPeerActivity(U32(0, PEER_TIMEOUT))
    \/ ResetStatistics

SpecWidth == InitWidth /\ [][NextWidth]_vars

\* ====================================================================
\* Claims
\* ====================================================================
IsSend == last.op = "sendMessage"
IsRecv == last.op = "onDataRecv"
EntryOf(mac) == FindPeer(peers, peerCount, mac)

C2_RejectsShortBuffer ==
    [][(last'.op = "onDataRecv" /\ (rx'.len < OFF_DATA \/ rx'.dataLen > rx'.len - OFF_DATA))
          => (/\ cb' = <<>>
              /\ UNCHANGED <<totalReceived, peers, peerCount>>
              /\ ~rx'.oob)]_vars

\* C3: a validated inbound message from the address of a registered peer
\* leaves that peer active (in particular after a sweep marked it inactive).
C3_TouchReactivates ==
    (IsRecv /\ last.ret /\ EntryOf(last.mac) # -1) => peers[EntryOf(last.mac)].active

\* C4: addPeer for an address that already has an entry returns success and
\* leaves the table size and every entry unchanged.
C4_AddPeerIdempotent ==
    [][(last'.op = "addPeer" /\ EntryOf(last'.mac) # -1)
          => (last'.ret /\ UNCHANGED <<peers, peerCount>>)]_vars

C8_BadChecksumNoEffect ==
    [][(last'.op = "onDataRecv" /\ rx'.sum # rx'.checksum)
          => (/\ ~last'.ret
              /\ cb' = <<>>
              /\ tx' = <<>>
              /\ UNCHANGED <<peers, peerCount, totalSent, totalReceived, totalFailed, pending>>)]_vars

C8_Witness ==
    /\ IsRecv
    /\ rx.sum # rx.checksum
    /\ rx.src.how = "payload"
    /\ recvCallback
    /\ EntryOf(last.mac) # -1
    /\ peers[EntryOf(last.mac)].active

\* C9: a frame that passes validation increments total_received by one,
\* stamps last_seen = now and messages_received + 1 on the first entry of the
\* transport-reported address (and on no other entry), and the registered
\* receive handler is invoked exactly once with (address, kind, payload).
C9_ValidFrameEffects ==
    [][(last'.op = "onDataRecv" /\ rx'.sum = rx'.checksum)
          => (/\ last'.ret
              /\ totalReceived' = Inc32(totalReceived)
              /\ peerCount' = peerCount
              /\ \A i \in 0..(MAX_ESPNOW_PEERS - 1) :
                    /\ peers'[i].mac = peers[i].mac
                    /\ peers'[i].name = peers[i].name
                    /\ peers'[i].active = peers[i].active
                    /\ peers'[i].lastSeen =
                          IF i = EntryOf(last'.mac) THEN now ELSE peers[i].lastSeen
                    /\ peers'[i].messagesReceived =
                          IF i = EntryOf(last'.mac)
                          THEN (peers[i].messagesReceived + 1) % 65536
                          ELSE peers[i].messagesReceived
              /\ recvCallback
                    => cb' = <<[who |-> "recv", mac |-> last'.mac,
                                data |-> rx'.payload, type |-> rx'.type]>>)]_vars

\* C10: no two entries of the peer table hold the same address.
C10_UniqueAddress ==
    \A i, j \in 0..(peerCount - 1) : i # j => peers[i].mac # peers[j].mac
\* C11: the table never holds more than MAX_ESPNOW_PEERS entries, and addPeer
\* for an address without an entry, called on a table that holds
\* MAX_ESPNOW_PEERS entries, fails and changes nothing.
C11_TableBounded ==
    [][/\ peerCount <= MAX_ESPNOW_PEERS
       /\ peerCount' <= MAX_ESPNOW_PEERS
       /\ (last'.op = "addPeer" /\ peerCount = MAX_ESPNOW_PEERS /\ EntryOf(last'.mac) = -1)
             => (/\ ~last'.ret
                 /\ UNCHANGED <<peers, peerCount, drvPeers, totalSent, totalReceived,
                                totalFailed>>)]_vars

C11_Witness ==
    /\ last.op = "addPeer"
    /\ ~last.ret
    /\ peerCount = MAX_ESPNOW_PEERS
    /\ EntryOf(last.mac) = -1
    /\ \A i \in 0..(MAX_ESPNOW_PEERS - 1) : peers[i].mac \in FleetMacs /\ peers[i].active
    /\ Cardinality(drvPeers) = MAX_ESPNOW_PEERS
\* C12: removePeer of an address that has an entry returns success and
\* removes exactly that entry (size - 1, the others unchanged and in order);
\* of an absent address it fails and changes nothing; and until addPeer is
\* called for it again the removed address has no entry, so validated
\* traffic from it alters no entry.
C12_RemoveExact ==
    [][/\ (last'.op = "removePeer" /\ EntryOf(last'.mac) # -1)
             => (/\ last'.ret
                 /\ peerCount' = peerCount - 1
                 /\ \A i \in 0..(peerCount - 2) :
                       peers'[i] = IF i < EntryOf(last'.mac) THEN peers[i] ELSE peers[i + 1]
                 /\ FindPeer(peers', peerCount', last'.mac) = -1)
       /\ (last'.op = "removePeer" /\ EntryOf(last'.mac) = -1)
             => (~last'.ret /\ UNCHANGED <<peers, peerCount, drvPeers>>)
       /\ \A m \in Macs :
             (EntryOf(m) = -1 /\ ~(last'.op = "addPeer" /\ last'.mac = m))
                => (/\ FindPeer(peers', peerCount', m) = -1
                    /\ (last'.op = "onDataRecv" /\ last'.mac = m)
                          => UNCHANGED <<peers, peerCount>>)]_vars
\* C13: checkPeerActivity(timeout) leaves an entry active exactly when it was
\* active and now - last_seen <= timeout, the difference d being the 32-bit
\* wrap-around one (last_seen + d = now modulo 2^32): silent for exactly
\* timeout keeps the flag, timeout + 1 clears it, also across a clock wrap.
C13_SweepThreshold ==
    [][(last'.op = "checkPeerActivity")
          => \A i \in 0..(peerCount - 1) :
                LET d == Sub32(now, peers[i].lastSeen)
                IN  /\ Add32(peers[i].lastSeen, d) = now
                    /\ peers'[i].active =
                          (peers[i].active /\ ~(d.hi > 0 \/ d.lo > PEER_TIMEOUT))]_vars

C13_Witness ==
    /\ last.op = "checkPeerActivity"
    /\ peerCount = 2
    /\ Gt32(peers[0].lastSeen, now)
    /\ Gt32(peers[1].lastSeen, now)
    /\ Add32(peers[0].lastSeen, U32(0, PEER_TIMEOUT + 1)) = now
    /\ Add32(peers[1].lastSeen, U32(0, PEER_TIMEOUT)) = now
    /\ ~peers[0].active
    /\ peers[1].active
\* C14: checkPeerActivity removes no entry and changes no entry's address,
\* name, last_seen, messages_sent or messages_received: the table size and
\* the per-peer history are the same before and after every sweep.
C14_SoftEviction ==
    [][(last'.op = "checkPeerActivity")
          => (/\ peerCount' = peerCount
              /\ \A i \in 0..(MAX_ESPNOW_PEERS - 1) :
                    /\ peers'[i].mac = peers[i].mac
                    /\ peers'[i].name = peers[i].name
                    /\ peers'[i].lastSeen = peers[i].lastSeen
                    /\ peers'[i].messagesSent = peers[i].messagesSent
                    /\ peers'[i].messagesReceived = peers[i].messagesReceived
              /\ UNCHANGED <<totalSent, totalReceived, totalFailed, drvPeers>>)]_vars

C14_Witness ==
    /\ last.op = "checkPeerActivity"
    /\ peerCount = 2
    /\ ~peers[0].active
    /\ peers[0].mac \in Macs
    /\ peers[0].name = <<78, 50>>
    /\ peers[0].messagesReceived = 1
    /\ peers[1].active
    /\ peers[0].mac \in drvPeers
\* the addresses of the active entries, in table order
ActiveMacs ==
    LET RECURSIVE From(_)
        From(i) == IF i >= peerCount THEN <<>>
                   ELSE IF peers[i].active THEN <<peers[i].mac>> \o From(i + 1)
                   ELSE From(i + 1)
    IN  From(0)

\* C15: sendToAllPeers makes one sendMessage call for every entry that is
\* active, in table order, and none for an inactive entry, whatever the
\* outcome of the sends before it; it returns whether all of them succeeded.
C15_BroadcastActive ==
    (last.op = "sendToAllPeers")
        => (/\ [k \in 1..Len(tx) |-> tx[k].mac] = ActiveMacs
            /\ last.ret = (\A k \in 1..Len(tx) : tx[k].ok))

C15_Witness ==
    /\ last.op = "sendToAllPeers"
    /\ peerCount = 3
    /\ ~peers[0].active
    /\ peers[1].active
    /\ peers[2].active
    /\ Len(tx) = 2
    /\ ~tx[1].ok
    /\ tx[2].ok

C17_SyncResult ==
    [][(last'.op = "sendMessage" /\ Len(last'.arg) <= DATA_SIZE - 1)
          => (/\ Len(tx') = 1
              /\ tx'[1].mac = last'.mac
              /\ last'.ret = tx'[1].ok
              /\ pending' = IF last'.ret THEN Append(pending, last'.mac) ELSE pending
              /\ cb' = <<>>)]_vars

C17_Witness ==
    /\ IsSend
    /\ Len(last.arg) <= DATA_SIZE - 1
    /\ ~last.ret
    /\ tx = <<[mac |-> last.mac, ok |-> FALSE]>>
    /\ drvInit
    /\ last.mac \in drvPeers
    /\ Len(pending) = 1
    /\ totalSent = U32(0, 1)
    /\ totalFailed = U32(0, 1)
\* C18: a validated message from an address without an entry reaches the
\* registered receive handler, creates no entry and changes no entry.
C18_NoAutoRegistration ==
    [][(last'.op = "onDataRecv" /\ last'.ret /\ EntryOf(last'.mac) = -1)
          => (/\ UNCHANGED <<peers, peerCount, drvPeers>>
              /\ totalReceived' = Inc32(totalReceived)
              /\ recvCallback => (Len(cb') = 1 /\ cb'[1].mac = last'.mac))]_vars

C18_Witness ==
    /\ IsRecv
    /\ last.ret
    /\ EntryOf(last.mac) = -1
    /\ peerCount = 1
    /\ peers[0].active
    /\ peers[0].messagesReceived = 0
    /\ Gt32(now, peers[0].lastSeen)
    /\ Len(cb) = 1
    /\ cb[1].mac = last.mac
\* sum of all elements of a byte sequence
Total(s) == SumRange(s, 1, Len(s))
\* the checksum as the claim words it, over decoded fields
Additive(f) ==
    (f.type + Total(f.sender) + (f.timestamp.lo % 256) + f.dataLen + Total(f.payload)) % 256

\* C19: calculateChecksum is (kind + the six sender bytes + the low byte of
\* the timestamp + payload length + every payload byte) mod 256, both when
\* onDataRecv recomputes it and as the checksum byte sendMessage stores.
C19_AdditiveChecksum ==
    /\ IsSend => (Len(frame.sender) = 6 /\ frame.checksum = Additive(frame))
    /\ IsRecv => rx.sum = Additive(rx)
    /\ (IsRecv /\ rx.src.how = "intact") => rx.checksum = Additive(rx)

C19_Witness ==
    /\ IsRecv
    /\ rx.src.how = "intact"
    /\ rx.timestamp = U32(43981, 61185)
    /\ rx.dataLen = 10
    /\ rx.sum = rx.checksum
    /\ rx.sum = (0 + 1275 + 1 + 10 + Total(P_SHORT)) % 256

\* the bytes of a flipped frame the claim names: kind, sender address,
\* timestamp, length and the payload bytes
NamedOffsets(src) ==
    (OFF_TYPE..(OFF_SENDER + 5)) \cup (OFF_TS..OFF_LEN)
       \cup (OFF_DATA..(OFF_DATA + Len(src.payload) - 1))

\* C20 (as stated): a frame with one bit flipped in the kind, the sender
\* address, a timestamp byte, the length byte or a payload byte is rejected
\* and the handler is not invoked.
C20_AnyBitFlipRejected ==
    (IsRecv /\ rx.src.how = "flip" /\ rx.src.off \in NamedOffsets(rx.src))
        => (~last.ret /\ cb = <<>>)

\* C20 (amended): a flip in the kind, the sender address, the low byte of
\* the timestamp or a payload byte is rejected; a flip in one of the upper
\* three timestamp bytes is not covered by the checksum: the frame is
\* accepted with the altered timestamp.  A flip in the length byte passes
\* when the payload bytes it drops make up for it: bit 2 of length 12 in a
\* frame whose last four payload bytes sum to 252 gives a valid frame of 8.
C20_SummedBitFlipRejected ==
    /\ (/\ IsRecv
        /\ rx.src.how = "flip"
        /\ rx.src.off \in (NamedOffsets(rx.src) \ ((OFF_TS + 1)..OFF_LEN)))
          => (~last.ret /\ cb = <<>> /\ rx.sum # rx.checksum)
    /\ (/\ IsRecv
        /\ rx.src.how = "flip"
        /\ rx.src.off \in (OFF_TS + 1)..(OFF_TS + 3))
          => (last.ret /\ rx.timestamp # rx.src.ts /\ rx.payload = rx.src.payload)
    /\ (/\ IsRecv
        /\ rx.src.how = "flip"
        /\ rx.src.off = OFF_LEN
        /\ rx.src.payload = P_LEN12)
          => (last.ret /\ rx.dataLen = 8 /\ rx.payload = SubSeq(P_LEN12, 1, 8))

C20_Witness ==
    /\ IsRecv
    /\ rx.src.how = "flip"
    /\ rx.src.off = OFF_DATA + Len(rx.src.payload) - 1
    /\ rx.src.bit = 7
    /\ recvCallback
    /\ EntryOf(last.mac) = 0
    /\ ~last.ret
    /\ cb = <<>>
\* the largest datagram esp_now_send takes (ESP_NOW_MAX_DATA_LEN)
ESP_NOW_MAX_DATA_LEN == 250

C24_NoLostUpdate ==
    (LoopIdle /\ WifiIdle /\ ~run.reset)
        => (/\ Add32(totalSent, totalFailed) = U32(0, run.calls)
            /\ totalReceived = U32(0, run.valid))

\* C26: the triple getStatistics returns is one the three counters held
\* together at some instant while it ran.
C26_SnapshotHeld ==
    (run.snap # <<>>) => (run.snap \in run.held)

\* C29: updatePeerActivity for a validated message from A writes last_seen
\* and messages_received only into an entry inside the table whose address
\* is A, also when removePeer shifts the table meanwhile.
C29_TouchOwnEntry ==
    (run.touch # <<>>)
        => (run.touch.entry = run.touch.mac /\ run.touch.idx < run.touch.cnt)

\* entry i has been silent for longer than the timeout
Silent(i) ==
    i < peerCount /\ Gt32(Sub32(now, peers[i].lastSeen), U32(0, PEER_TIMEOUT))

\* C25: with loop() running again and again, a registered peer that stays
\* silent beyond the timeout is eventually marked inactive; the pass of the
\* loop in which the 30-second timer fires sweeps, a sweep leaves no silent
\* entry active, and a broadcast transmits to active entries only.
C25_SilentPeerExpires ==
    /\ \A i \in 0..(Cardinality(LiveMacs) - 1) :
          (Silent(i) /\ peers[i].active) ~> (~Silent(i) \/ ~peers[i].active)
    /\ [][/\ (last'.op = "loop")
                => (/\ TimerReady(now, run.peerCheckTimer, U32(0, LOOP_PERIOD)) => last'.ret
                    /\ last'.ret => \A i \in 0..(MAX_ESPNOW_PEERS - 1) :
                                       Silent(i) => ~peers'[i].active)
          /\ (last'.op = "sendToAllPeers")
                => \A k \in 1..Len(tx') :
                      \E i \in 0..(peerCount - 1) :
                          peers[i].mac = tx'[k].mac /\ peers[i].active]_vars

C25_Witness ==
    /\ last.op = "sendToAllPeers"
    /\ peerCount = 2
    /\ Silent(0)
    /\ ~peers[0].active
    /\ peers[1].active
    /\ run.peerCheckTimer = now
    /\ tx = <<[mac |-> peers[1].mac, ok |-> TRUE]>>
\* C27: after every successful begin(), also one that follows an end(), the
\* peer table is empty.
C27_EmptyAfterBegin ==
    (last.op = "begin" /\ last.ret) => peerCount = 0

\* addresses held by the entries of the peer table
TableMacs == {peers[i].mac : i \in 0..(peerCount - 1)}

\* C28: the addresses in the peer table are the peers registered with the
\* driver, and addPeer reports success only for an address the driver knows.
C28_TableMatchesDriver ==
    /\ TableMacs = drvPeers
    /\ (last.op = "addPeer" /\ last.ret) => last.mac \in drvPeers
\* a sum of 16-bit counters as a 32-bit value
AsU32(n) == U32(n \div 65536, n % 65536)
SentSum == SumRange([i \in 0..(MAX_ESPNOW_PEERS - 1) |-> peers[i].messagesSent], 0, peerCount - 1)
ReceivedSum ==
    SumRange([i \in 0..(MAX_ESPNOW_PEERS - 1) |-> peers[i].messagesReceived], 0, peerCount - 1)

\* C30: the per-peer messagesSent of the table's entries add up to at most
\* totalSent, and their messagesReceived to at most totalReceived.
C30_SumsBelowTotals ==
    /\ ~Gt32(AsU32(SentSum), totalSent)
    /\ ~Gt32(AsU32(ReceivedSum), totalReceived)
====
